---------------------------- MODULE Spec2Model ----------------------------
(***************************************************************************)
(* The Pokedex search page (src/src/app/page.tsx): the evolution resolver  *)
(* (fetchEvolutionStages), the artwork hydrator (hydrateEvolutionStages)   *)
(* and the presentation orchestrator (fetchPokemon and the handlers of     *)
(* Home), as a state machine over the React state of Home, the invocations *)
(* of fetchPokemon that are in flight, and the remote data service.        *)
(*                                                                         *)
(* Representation of JavaScript values:                                    *)
(*   string            a sequence of one-character strings ("" is << >>)   *)
(*   T | null          Null, or the record (a non-record T is wrapped:     *)
(*                     [message |-> s], [stages |-> s])                    *)
(*   T | undefined     inside API payloads: the set {} or {v}              *)
(*   array             a sequence                                          *)
(***************************************************************************)
EXTENDS Integers, Sequences, FiniteSets

VARIABLES
    query,            \* useState("")            page.tsx:157
    pokemon,          \* useState<Pokemon|null>  page.tsx:158
    error,            \* useState<string|null>   page.tsx:159
    isLoading,        \* useState(false)         page.tsx:160
    evolutionStages,  \* useState<EvolutionStage[]|null> page.tsx:161
    calls,            \* the invocations of fetchPokemon, in the order they started
    chain,            \* the tree the data service serves as the bulbasaur family's chain
    pokemonBy,        \* history: the invocation whose setPokemon wrote pokemon (0: none)
    evolutionBy       \* history: the invocation whose setEvolutionStages wrote evolutionStages

vars == <<query, pokemon, error, isLoading, evolutionStages, calls, chain,
          pokemonBy, evolutionBy>>

-----------------------------------------------------------------------------
(* Bounds of the model *)

\* invocations of fetchPokemon in one behaviour
MaxSearches == 2
\* nodes of a chain tree drawn by InitResolve
MaxNodes == 4

-----------------------------------------------------------------------------
(* Program constants *)

MIN_POKEMON_ID == 1
MAX_POKEMON_ID == 1025
TOTAL_POKEMON_COUNT == MAX_POKEMON_ID - MIN_POKEMON_ID + 1

Null == [null |-> TRUE]

-----------------------------------------------------------------------------
(* Strings *)

Digits == <<"0", "1", "2", "3", "4", "5", "6", "7", "8", "9">>

IsDigit(ch) == \E d \in 1..10 : Digits[d] = ch

DigitValue(ch) == (CHOOSE d \in 1..10 : Digits[d] = ch) - 1

\* Number.prototype.toString for a non-negative integer
RECURSIVE ToString(_)
ToString(n) ==
    IF n < 10 THEN <<Digits[n + 1]>>
    ELSE ToString(n \div 10) \o <<Digits[(n % 10) + 1]>>

RECURSIVE DecimalValue(_)
DecimalValue(s) ==
    IF s = << >> THEN 0
    ELSE 10 * DecimalValue(SubSeq(s, 1, Len(s) - 1)) + DigitValue(s[Len(s)])

Upper == [a |-> "A", b |-> "B", e |-> "E", i |-> "I", m |-> "M", p |-> "P", v |-> "V",
          w |-> "W", z |-> "Z"]
Lower == [A |-> "a", B |-> "b", E |-> "e", I |-> "i", M |-> "m", P |-> "p", V |-> "v",
          W |-> "w", Z |-> "z"]

toUpperCase(ch) == IF ch \in DOMAIN Upper THEN Upper[ch] ELSE ch
toLowerCase(s) == [k \in 1..Len(s) |-> IF s[k] \in DOMAIN Lower THEN Lower[s[k]] ELSE s[k]]

RECURSIVE trimStart(_)
trimStart(s) == IF s # << >> /\ s[1] = " " THEN trimStart(Tail(s)) ELSE s

RECURSIVE trimEnd(_)
trimEnd(s) ==
    IF s # << >> /\ s[Len(s)] = " " THEN trimEnd(SubSeq(s, 1, Len(s) - 1)) ELSE s

trim(s) == trimEnd(trimStart(s))

\* String.prototype.includes
includes(s, part) ==
    \E k \in 0..(Len(s) - Len(part)) : SubSeq(s, k + 1, k + Len(part)) = part

\* s.split("/").filter(Boolean): the non-empty segments between slashes
RECURSIVE SplitSegments(_, _)
SplitSegments(s, cur) ==
    IF s = << >> THEN (IF cur = << >> THEN << >> ELSE <<cur>>)
    ELSE IF s[1] = "/" THEN (IF cur = << >> THEN << >> ELSE <<cur>>) \o SplitSegments(Tail(s), << >>)
    ELSE SplitSegments(Tail(s), Append(cur, s[1]))

getFormattedName(name) ==
    IF name = << >> THEN << >> ELSE <<toUpperCase(name[1])>> \o Tail(name)

\* JavaScript's %: the remainder takes the sign of the dividend
JsRemainder(a, b) == IF a >= 0 THEN a % b ELSE -((-a) % b)

-----------------------------------------------------------------------------
(* The remote data service (spec.md section 6) *)

ApiBase == <<"h", "t", "t", "p", "s", ":", "/", "/", "p", "o", "k", "e", "a", "p", "i", ".", "c", "o", "/", "a", "p", "i", "/", "v", "2", "/">>
PokemonPath == <<"p", "o", "k", "e", "m", "o", "n", "/">>
SpeciesPath == <<"p", "o", "k", "e", "m", "o", "n", "-", "s", "p", "e", "c", "i", "e", "s", "/">>
ChainPath == <<"e", "v", "o", "l", "u", "t", "i", "o", "n", "-", "c", "h", "a", "i", "n", "/">>

PokemonUrl(normalized) == ApiBase \o PokemonPath \o normalized
SpeciesUrl(n) == ApiBase \o SpeciesPath \o ToString(n) \o <<"/">>
ChainUrl(n) == ApiBase \o ChainPath \o ToString(n) \o <<"/">>
\* a species reference whose last path segment is no number
BadSpeciesUrl == ApiBase \o SpeciesPath \o <<"u", "n", "k", "n", "o", "w", "n">> \o <<"/">>

Bulbasaur == <<"b", "u", "l", "b", "a", "s", "a", "u", "r">>
Ivysaur == <<"i", "v", "y", "s", "a", "u", "r">>
Venusaur == <<"v", "e", "n", "u", "s", "a", "u", "r">>
Mewtwo == <<"m", "e", "w", "t", "w", "o">>
Mew == <<"m", "e", "w">>
Missingno == <<"m", "i", "s", "s", "i", "n", "g", "n", "o">>

\* the species the data service knows by name
Named == <<[id |-> 1, name |-> Bulbasaur], [id |-> 2, name |-> Ivysaur],
           [id |-> 3, name |-> Venusaur], [id |-> 150, name |-> Mewtwo],
           [id |-> 151, name |-> Mew]>>

NamedIds == {Named[k].id : k \in 1..Len(Named)}

NameOf(n) ==
    IF n \in NamedIds THEN (CHOOSE r \in {Named[k] : k \in 1..Len(Named)} : r.id = n).name
    ELSE <<"p">> \o ToString(n)

\* GET /pokemon/{id}: the record of page.tsx:38-47, without its display-only
\* attributes; a named species carries its species reference, the others none
PokemonRecord(n) ==
    [id |-> n, name |-> NameOf(n),
     species |-> IF n \in NamedIds THEN {[name |-> NameOf(n), url |-> SpeciesUrl(n)]} ELSE {}]

\* the id a normalized identifier (a name, or a number in decimal) stands for; 0: none
ResolveIdentifier(normalized) ==
    IF \E k \in 1..Len(Named) : Named[k].name = normalized
    THEN (CHOOSE r \in {Named[k] : k \in 1..Len(Named)} : r.name = normalized).id
    ELSE IF normalized # << >> /\ (\A k \in 1..Len(normalized) : IsDigit(normalized[k]))
              /\ DecimalValue(normalized) \in MIN_POKEMON_ID..MAX_POKEMON_ID
              /\ ToString(DecimalValue(normalized)) = normalized
    THEN DecimalValue(normalized)
    ELSE 0

Node(ref, kids) == [species |-> ref, evolves_to |-> kids]

BulbasaurChain ==
    Node([name |-> Bulbasaur, url |-> SpeciesUrl(1)],
         <<Node([name |-> Ivysaur, url |-> SpeciesUrl(2)],
                <<Node([name |-> Venusaur, url |-> SpeciesUrl(3)], << >>)>>)>>)

MewChain == Node([name |-> Mew, url |-> SpeciesUrl(151)], << >>)

\* GET /pokemon-species/{id}: the bulbasaur family and mew name a chain, mewtwo none
SpeciesRecord(n) ==
    [evolution_chain |->
        IF n \in {1, 2, 3} THEN {[url |-> ChainUrl(1)]}
        ELSE IF n = 151 THEN {[url |-> ChainUrl(151)]}
        ELSE {}]

\* the artwork of GET /pokemon/{id} (PokemonSprites, page.tsx:19-26): a field is {}
\* (null or absent) or {url}
ExampleArt(kind, n) == <<"https://example.com/", kind, n, ".png">>
EmptyString == << >>

SpritesOf(n) ==
    IF n = 2 THEN [official |-> {}, front_default |-> {ExampleArt("front", n)}]
    ELSE IF n = 3 THEN [official |-> {}, front_default |-> {}]
    ELSE [official |-> {ExampleArt("art", n)}, front_default |-> {ExampleArt("front", n)}]

(* A settled fetch: the promise rejects (network error), or it fulfils with a
   response [ok, json], where json is {} when reading the body rejects and {body}
   otherwise. *)
NetworkError == [rejected |-> TRUE]
Response(ok, json) == [ok |-> ok, json |-> json]

\* what a fetch of a resource whose body is one of `bodies` (none: no such
\* resource) can settle to
Settlements(bodies) ==
    {NetworkError, Response(FALSE, {})}
        \cup {Response(TRUE, {}) : b \in bodies} \cup {Response(TRUE, {b}) : b \in bodies}

PokemonBodies(normalized) ==
    IF ResolveIdentifier(normalized) = 0 THEN {}
    ELSE {PokemonRecord(ResolveIdentifier(normalized))}

SpeciesBodies(url) ==
    {SpeciesRecord(n) : n \in {m \in NamedIds : SpeciesUrl(m) = url}}

\* GET /evolution-chain/{id}; the second body of each is a payload without a tree
ChainBodies(url) ==
    IF url = ChainUrl(1) THEN {[chain |-> chain], [id |-> 1]}
    ELSE IF url = ChainUrl(151) THEN {[chain |-> MewChain], [id |-> 151]}
    ELSE {}

ArtworkBodies(n) ==
    IF n \in MIN_POKEMON_ID..MAX_POKEMON_ID
    THEN {[sprites |-> SpritesOf(n)], [name |-> NameOf(n)]}   \* the second: no sprites
    ELSE {}

-----------------------------------------------------------------------------
(* The pure functions of page.tsx *)

NaN == [nan |-> TRUE]

AllDigits(s) == s # << >> /\ \A k \in 1..Len(s) : IsDigit(s[k])

\* Number(segment), for segments over letters, digits, blanks, "-", "." and ":":
\* blank text is 0, a decimal numeral (with an optional minus sign) is its value,
\* anything else NaN; Number(undefined), given as {}, is NaN
Number(segment) ==
    IF segment = {} THEN NaN
    ELSE LET t == trim(CHOOSE s \in segment : TRUE) IN
         IF t = << >> THEN [number |-> 0]
         ELSE IF AllDigits(t) THEN [number |-> DecimalValue(t)]
         ELSE IF t[1] = "-" /\ AllDigits(Tail(t)) THEN [number |-> -DecimalValue(Tail(t))]
         ELSE NaN

\* page.tsx:77-81; the result is Null or [number |-> id]
extractIdFromUrl(url) ==
    LET segments == SplitSegments(url, << >>)
        id == Number(IF segments = << >> THEN {} ELSE {segments[Len(segments)]})
    IN  IF id # NaN THEN id ELSE Null

\* page.tsx:83-84
getOfficialArtworkUrl(id) ==
    <<"https://raw.githubusercontent.com/PokeAPI/sprites/master/other/", "official-artwork",
      id, ".png">>

\* a ?? b on a field that is {} (null or undefined) or {v}
Coalesce(a, b) == IF a = {} THEN b ELSE CHOOSE v \in a : TRUE

\* page.tsx:49-50
getSpriteUrl(sprites) ==
    Coalesce(sprites.official, Coalesce(sprites.front_default, EmptyString))

\* PushSpecies that leaves out a species whose id the stage already holds
PushSpeciesOnce(stage, node) ==
    LET speciesId == extractIdFromUrl(node.species.url) IN
    IF speciesId # Null /\ \A i \in 1..Len(stage.species) : stage.species[i].id # speciesId.number
    THEN [species |-> Append(stage.species,
                             [id |-> speciesId.number,
                              name |-> node.species.name,
                              artwork |-> getOfficialArtworkUrl(speciesId.number)])]
    ELSE stage

\* page.tsx:96-102: the entry a node adds to its level's stage, if its id parses
PushSpecies(stage, node) ==
    LET speciesId == extractIdFromUrl(node.species.url) IN
    IF speciesId # Null
    THEN [species |-> Append(stage.species,
                             [id |-> speciesId.number,
                              name |-> node.species.name,
                              artwork |-> getOfficialArtworkUrl(speciesId.number)])]
    ELSE stage

RECURSIVE traverse(_, _, _)
RECURSIVE forEachChild(_, _, _, _)

\* traverse leaving a node whose id does not parse without visiting its children
traverseSkippingSubtree(node, level, stages) ==
    LET created == IF level + 1 > Len(stages) THEN Append(stages, [species |-> << >>])
                   ELSE stages
        pushed == [created EXCEPT ![level + 1] = PushSpecies(@, node)]
    IN  IF extractIdFromUrl(node.species.url) = Null THEN created
        ELSE forEachChild(node.evolves_to, 1, level + 1, pushed)

\* page.tsx:89-105; level counts from 0, stages[level] is the sequence's element level + 1
traverse(node, level, stages) ==
    LET created == IF level + 1 > Len(stages) THEN Append(stages, [species |-> << >>])
                   ELSE stages
        pushed == [created EXCEPT ![level + 1] = PushSpecies(@, node)]
    IN  forEachChild(node.evolves_to, 1, level + 1, pushed)

forEachChild(children, k, level, stages) ==
    IF k > Len(children) THEN stages
    ELSE forEachChild(children, k + 1, level, traverse(children[k], level, stages))

\* filterNonEmpty without the filter of page.tsx:109
keepEveryStage(stages) == stages

\* page.tsx:109: stages.filter((stage) => stage.species.length > 0)
RECURSIVE filterNonEmpty(_)
filterNonEmpty(stages) ==
    IF stages = << >> THEN << >>
    ELSE (IF Len(stages[1].species) > 0 THEN <<stages[1]>> ELSE << >>)
             \o filterNonEmpty(Tail(stages))

\* page.tsx:86-110
buildEvolutionStages(tree) == filterNonEmpty(traverse(tree, 0, << >>))

\* page.tsx:201: stage.species.some((species) => species.id === currentPokemonId)
StageHasId(stage, currentPokemonId) ==
    \E i \in 1..Len(stage.species) : stage.species[i].id = currentPokemonId

\* page.tsx:200-202: Array.prototype.findIndex, the first index (from 0) or -1
findIndex(stages, currentPokemonId) ==
    IF \E k \in 1..Len(stages) : StageHasId(stages[k], currentPokemonId)
    THEN (CHOOSE k \in 1..Len(stages) :
            /\ StageHasId(stages[k], currentPokemonId)
            /\ \A j \in 1..(k - 1) : ~StageHasId(stages[j], currentPokemonId)) - 1
    ELSE -1

\* Array.prototype.slice(start) for start >= 0
slice(stages, start) == SubSeq(stages, start + 1, Len(stages))

\* StagesAfterCurrent without the check of page.tsx:204-206 for an index of -1
StagesAfterCurrentUnchecked(hydratedStages, currentPokemonId) ==
    slice(hydratedStages, findIndex(hydratedStages, currentPokemonId) + 1)

\* StagesAfterCurrent with the slice starting at the located stage itself
StagesFromCurrent(hydratedStages, currentPokemonId) ==
    LET currentStageIndex == findIndex(hydratedStages, currentPokemonId) IN
    IF currentStageIndex = -1 THEN << >>
    ELSE slice(hydratedStages, currentStageIndex)

\* page.tsx:200-208: what fetchEvolutionStages returns once the hydrator has returned
StagesAfterCurrent(hydratedStages, currentPokemonId) ==
    LET currentStageIndex == findIndex(hydratedStages, currentPokemonId) IN
    IF currentStageIndex = -1 THEN << >>
    ELSE slice(hydratedStages, currentStageIndex + 1)

-----------------------------------------------------------------------------
(* Promises *)

Pending == [pending |-> TRUE]
Rejected == [rejected |-> TRUE]
Fulfilled(v) == [fulfilled |-> v]

\* Promise.all over a sequence of promises: rejected once one is, fulfilled with the
\* values in the order of the promises once all are
PromiseAll(promises) ==
    IF \E k \in 1..Len(promises) : promises[k] = Rejected THEN Rejected
    ELSE IF \E k \in 1..Len(promises) : promises[k] = Pending THEN Pending
    ELSE Fulfilled([k \in 1..Len(promises) |-> promises[k].fulfilled])

\* whether a settled fetch passes `response.ok` and `await response.json()`
Succeeded(settled) == settled # NetworkError /\ settled.ok /\ settled.json # {}
Body(settled) == CHOOSE b \in settled.json : TRUE

-----------------------------------------------------------------------------
(* hydrateEvolutionStages, page.tsx:112-144 *)

\* HydrateSpecies without the try/catch of page.tsx:117-133: a throw rejects
HydrateSpeciesUncaught(species, settled) ==
    IF settled = NetworkError THEN Rejected
    ELSE IF ~settled.ok THEN Rejected
    ELSE IF settled.json = {} THEN Rejected
    ELSE IF "sprites" \notin DOMAIN Body(settled) THEN Rejected
    ELSE LET url == getSpriteUrl(Body(settled).sprites) IN
         Fulfilled([species EXCEPT !.artwork = IF url # EmptyString THEN url ELSE @])

\* HydrateSpecies whose catch block returns the entry without its id (as 0)
\* where page.tsx:132 returns the species as it is
HydrateSpeciesLosingId(species, settled) ==
    LET blank == [species EXCEPT !.id = 0] IN
    IF settled = NetworkError THEN Fulfilled(blank)
    ELSE IF ~settled.ok THEN Fulfilled(blank)
    ELSE IF settled.json = {} THEN Fulfilled(blank)
    ELSE IF "sprites" \notin DOMAIN Body(settled) THEN Fulfilled(blank)
    ELSE LET url == getSpriteUrl(Body(settled).sprites) IN
         Fulfilled([species EXCEPT !.artwork = IF url # EmptyString THEN url ELSE @])

\* page.tsx:116-134: what the async callback of one species fulfils with, given
\* how its fetch settled; the catch block turns every throw into the species as is
HydrateSpecies(species, settled) ==
    IF settled = NetworkError THEN Fulfilled(species)           \* fetch rejects
    ELSE IF ~settled.ok THEN Fulfilled(species)                 \* page.tsx:120-122
    ELSE IF settled.json = {} THEN Fulfilled(species)           \* response.json() rejects
    ELSE IF "sprites" \notin DOMAIN Body(settled) THEN Fulfilled(species)
                                                                \* getSpriteUrl(undefined) throws
    ELSE LET url == getSpriteUrl(Body(settled).sprites) IN
         Fulfilled([species EXCEPT !.artwork = IF url # EmptyString THEN url ELSE @])

\* page.tsx:113-116: one promise per species of every stage, all issued at once
HydrateIssue(stages) ==
    [k \in 1..Len(stages) |-> [i \in 1..Len(stages[k].species) |-> Pending]]

\* HydrateStore with the results collected in the order the lookups complete:
\* the promise takes the first place, by stage and index, that is still pending
HydrateStoreInCompletionOrder(promises, k, i, promise) ==
    LET open == {<<j, h>> \in (1..Len(promises)) \X (1..MaxNodes) :
                    h <= Len(promises[j]) /\ promises[j][h] = Pending}
        first == CHOOSE p \in open :
                    \A q \in open : p[1] < q[1] \/ (p[1] = q[1] /\ p[2] <= q[2])
    IN  [promises EXCEPT ![first[1]][first[2]] = promise]

\* the promise of species i of stage k settles: Promise.all keeps it at its index
HydrateStore(promises, k, i, promise) == [promises EXCEPT ![k][i] = promise]

\* page.tsx:113-143: the promise hydrateEvolutionStages returns
HydrateOutcome(promises) ==
    LET perStage == [k \in 1..Len(promises) |-> PromiseAll(promises[k])]
        all == PromiseAll(perStage)
    IN  IF all \in {Pending, Rejected} THEN all
        ELSE Fulfilled([k \in 1..Len(promises) |-> [species |-> all.fulfilled[k]]])

-----------------------------------------------------------------------------
(* The state *)

EnterNameMessage == [message |-> "Enter a Pokemon name to search."]
NotFoundMessage == [message |-> "No Pokemon found with that name. Try another search."]

Unset == [unset |-> TRUE]

(* One invocation of fetchPokemon that passed the empty check:
     pc          the await it is suspended at, or "done"
     via, from   the handler that started it and, for handleNavigate, the id the
                 page displayed then
     normalized  page.tsx:215-218
     data        the primary record (page.tsx:238), Null before
     settled     how the primary, species and chain fetches settled ("none": not sent)
     chainUrl    page.tsx:185, once the species record is read
     baseStages  page.tsx:198, while the hydrator runs
     promises    the hydrator's promises, per stage and species
     lookups     how the hydrator's fetches settled, per stage and species
     stages      what fetchEvolutionStages returned (page.tsx:243), Unset before
   A finished invocation keeps via, from, data, settled and stages; its other
   locals are gone. *)
NewCall(via, from, normalized) ==
    [pc |-> "primary", via |-> via, from |-> from, normalized |-> normalized,
     data |-> Null,
     settled |-> [primary |-> "pending", species |-> "none", chain |-> "none"],
     chainUrl |-> << >>, baseStages |-> << >>, promises |-> << >>, lookups |-> << >>,
     stages |-> Unset]

\* the record of an invocation that has returned
Finished(call) ==
    [call EXCEPT !.pc = "done", !.normalized = << >>,
                 !.chainUrl = << >>, !.baseStages = << >>, !.promises = << >>,
                 !.lookups = << >>]

Init ==
    /\ query = << >>
    /\ pokemon = Null
    /\ error = Null
    /\ isLoading = FALSE
    /\ evolutionStages = Null
    /\ calls = << >>
    /\ chain = BulbasaurChain
    /\ pokemonBy = 0
    /\ evolutionBy = 0

-----------------------------------------------------------------------------
(* fetchPokemon, page.tsx:214-255 *)

\* page.tsx:215-218
Normalize(identifier) ==
    IF "number" \in DOMAIN identifier THEN ToString(identifier.number)
    ELSE toLowerCase(trim(identifier.string))

\* RejectEmpty that stores an empty stage list where page.tsx:223 stores null
RejectEmptyAsNoStages ==
    /\ error' = EnterNameMessage
    /\ pokemon' = Null
    /\ evolutionStages' = [stages |-> << >>]
    /\ pokemonBy' = 0
    /\ evolutionBy' = 0
    /\ UNCHANGED <<isLoading, calls, chain>>

\* page.tsx:220-225: the empty identifier
RejectEmpty ==
    /\ error' = EnterNameMessage
    /\ pokemon' = Null
    /\ evolutionStages' = Null
    /\ pokemonBy' = 0
    /\ evolutionBy' = 0
    /\ UNCHANGED <<isLoading, calls, chain>>

\* Begin without setError(null) and setEvolutionStages(null)
BeginWithoutClearing(normalized, via) ==
    /\ Len(calls) < MaxSearches
    /\ isLoading' = TRUE
    /\ calls' = Append(calls, NewCall(via, IF via \in {"next", "previous"}
                                           THEN pokemon.id ELSE 0,
                                      normalized))
    /\ UNCHANGED <<pokemon, pokemonBy, chain, error, evolutionStages, evolutionBy>>

\* page.tsx:227-232: the state is cleared and the primary fetch is sent
Begin(normalized, via) ==
    /\ Len(calls) < MaxSearches
    /\ isLoading' = TRUE
    /\ error' = Null
    /\ evolutionStages' = Null
    /\ evolutionBy' = Len(calls) + 1
    /\ calls' = Append(calls, NewCall(via, IF via \in {"next", "previous"}
                                           THEN pokemon.id ELSE 0,
                                      normalized))
    /\ UNCHANGED <<pokemon, pokemonBy, chain>>

\* page.tsx:214-232: up to the first await; newQuery is the query text the
\* calling handler leaves
fetchPokemon(identifier, via, newQuery) ==
    /\ query' = newQuery
    /\ IF Normalize(identifier) = << >> THEN RejectEmpty
       ELSE Begin(Normalize(identifier), via)

\* Commit with a request generation: only the latest invocation stores its result
CommitIfLatest(c, call, stages) ==
    /\ IF c = Len(calls)
       THEN /\ evolutionStages' = IF stages = Null THEN [stages |-> << >>] ELSE stages
            /\ evolutionBy' = c
       ELSE UNCHANGED <<evolutionStages, evolutionBy>>
    /\ isLoading' = FALSE
    /\ calls' = [calls EXCEPT ![c] = Finished([call EXCEPT !.stages = stages])]

\* page.tsx:243-254: fetchEvolutionStages returned `stages` to the invocation whose
\* record is `call`: setEvolutionStages(stages ?? []) and the finally block
Commit(c, call, stages) ==
    /\ evolutionStages' = IF stages = Null THEN [stages |-> << >>] ELSE stages
    /\ evolutionBy' = c
    /\ isLoading' = FALSE
    /\ calls' = [calls EXCEPT ![c] = Finished([call EXCEPT !.stages = stages])]

\* data.species?.url, truthy
HasSpeciesUrl(data) == \E s \in data.species : s.url # EmptyString
SpeciesUrlOf(data) == (CHOOSE s \in data.species : TRUE).url

\* page.tsx:238-247: the primary record arrived
PrimarySucceeded(c, data) ==
    /\ pokemon' = data
    /\ pokemonBy' = c
    /\ query' = getFormattedName(data.name)
    /\ IF HasSpeciesUrl(data)
       THEN /\ calls' = [calls EXCEPT ![c].pc = "species", ![c].data = data,
                                      ![c].settled.primary = "ok",
                                      ![c].settled.species = "pending"]
            /\ UNCHANGED <<evolutionStages, evolutionBy, isLoading>>
       ELSE /\ evolutionStages' = [stages |-> << >>]
            /\ evolutionBy' = c
            /\ isLoading' = FALSE
            /\ calls' = [calls EXCEPT ![c] = Finished([@ EXCEPT !.data = data,
                                                                !.settled.primary = "ok"])]
    /\ UNCHANGED <<error, chain>>

\* PrimaryFailed without the finally block of page.tsx:252-254
PrimaryFailedWithoutFinally(c) ==
    /\ pokemon' = Null
    /\ pokemonBy' = c
    /\ error' = NotFoundMessage
    /\ evolutionStages' = [stages |-> << >>]
    /\ evolutionBy' = c
    /\ calls' = [calls EXCEPT ![c] = Finished([@ EXCEPT !.settled.primary = "failed"])]
    /\ UNCHANGED <<query, chain, isLoading>>

\* PrimaryFailed with a catch block that leaves the displayed record alone
PrimaryFailedKeepingRecord(c) ==
    /\ error' = NotFoundMessage
    /\ evolutionStages' = [stages |-> << >>]
    /\ evolutionBy' = c
    /\ isLoading' = FALSE
    /\ calls' = [calls EXCEPT ![c] = Finished([@ EXCEPT !.settled.primary = "failed"])]
    /\ UNCHANGED <<query, pokemon, pokemonBy, chain>>

\* page.tsx:248-254: the catch block and the finally block
PrimaryFailed(c) ==
    /\ pokemon' = Null
    /\ pokemonBy' = c
    /\ error' = NotFoundMessage
    /\ evolutionStages' = [stages |-> << >>]
    /\ evolutionBy' = c
    /\ isLoading' = FALSE
    /\ calls' = [calls EXCEPT ![c] = Finished([@ EXCEPT !.settled.primary = "failed"])]
    /\ UNCHANGED <<query, chain>>

\* page.tsx:232-254: the primary fetch settles; a record without a name makes
\* getFormattedName throw (page.tsx:240)
PrimarySettled(c, settled) ==
    /\ calls[c].pc = "primary"
    /\ IF Succeeded(settled) /\ "name" \in DOMAIN Body(settled)
       THEN PrimarySucceeded(c, Body(settled))
       ELSE PrimaryFailed(c)

-----------------------------------------------------------------------------
(* fetchEvolutionStages, page.tsx:176-212, run inside fetchPokemon (page.tsx:243) *)

\* speciesData.evolution_chain?.url, truthy
HasChainUrl(speciesData) == \E e \in speciesData.evolution_chain : e.url # EmptyString
ChainUrlOf(speciesData) == (CHOOSE e \in speciesData.evolution_chain : TRUE).url

\* ResolutionFailure as a catch block that returns the empty list
ResolutionFailureAsEmpty == [stages |-> << >>]

\* page.tsx:209-211: the catch block's result
ResolutionFailure == Null

\* page.tsx:187-189 and 204-206: the empty success
NoStages == [stages |-> << >>]

\* SpeciesSettled that, when the species fetch fails, goes on to fetch the chain
\* numbered like the record
SpeciesSettledWithFallback(c, settled) ==
    /\ calls[c].pc = "species"
    /\ IF ~Succeeded(settled)
       THEN /\ calls' = [calls EXCEPT ![c].pc = "chain", ![c].settled.species = "failed",
                                      ![c].settled.chain = "pending",
                                      ![c].chainUrl = ChainUrl(calls[c].data.id)]
            /\ UNCHANGED <<evolutionStages, evolutionBy, isLoading>>
       ELSE IF ~HasChainUrl(Body(settled))
       THEN Commit(c, [calls[c] EXCEPT !.settled.species = "ok"], NoStages)
       ELSE /\ calls' = [calls EXCEPT ![c].pc = "chain", ![c].settled.species = "ok",
                                      ![c].settled.chain = "pending",
                                      ![c].chainUrl = ChainUrlOf(Body(settled))]
            /\ UNCHANGED <<evolutionStages, evolutionBy, isLoading>>
    /\ UNCHANGED <<query, pokemon, pokemonBy, error, chain>>

\* page.tsx:178-191: the species fetch settles
SpeciesSettled(c, settled) ==
    /\ calls[c].pc = "species"
    /\ IF ~Succeeded(settled)
       THEN Commit(c, [calls[c] EXCEPT !.settled.species = "failed"], ResolutionFailure)
       ELSE IF ~HasChainUrl(Body(settled))
       THEN Commit(c, [calls[c] EXCEPT !.settled.species = "ok"], NoStages)
       ELSE /\ calls' = [calls EXCEPT ![c].pc = "chain", ![c].settled.species = "ok",
                                      ![c].settled.chain = "pending",
                                      ![c].chainUrl = ChainUrlOf(Body(settled))]
            /\ UNCHANGED <<evolutionStages, evolutionBy, isLoading>>
    /\ UNCHANGED <<query, pokemon, pokemonBy, error, chain>>

\* ChainSettled that restricts the stages to those after the current species
\* before it hands them to the hydrator
ChainSettledRestrictFirst(c, settled) ==
    /\ calls[c].pc = "chain"
    /\ IF ~(Succeeded(settled) /\ "chain" \in DOMAIN Body(settled))
       THEN Commit(c, [calls[c] EXCEPT !.settled.chain = "failed"], ResolutionFailure)
       ELSE LET baseStages == StagesAfterCurrent(buildEvolutionStages(Body(settled).chain),
                                                 calls[c].data.id)
            IN
            /\ calls' = [calls EXCEPT ![c].pc = "hydrate", ![c].settled.chain = "ok",
                                      ![c].baseStages = baseStages,
                                      ![c].promises = HydrateIssue(baseStages),
                                      ![c].lookups =
                                          [k \in 1..Len(baseStages) |->
                                              [i \in 1..Len(baseStages[k].species) |->
                                                  "pending"]]]
            /\ UNCHANGED <<evolutionStages, evolutionBy, isLoading>>
    /\ UNCHANGED <<query, pokemon, pokemonBy, error, chain>>

\* page.tsx:191-199: the chain fetch settles; on success the stages are built and
\* the hydrator sends one request per species; a payload without a tree makes
\* buildEvolutionStages throw
ChainSettled(c, settled) ==
    /\ calls[c].pc = "chain"
    /\ IF ~(Succeeded(settled) /\ "chain" \in DOMAIN Body(settled))
       THEN Commit(c, [calls[c] EXCEPT !.settled.chain = "failed"], ResolutionFailure)
       ELSE LET baseStages == buildEvolutionStages(Body(settled).chain) IN
            /\ calls' = [calls EXCEPT ![c].pc = "hydrate", ![c].settled.chain = "ok",
                                      ![c].baseStages = baseStages,
                                      ![c].promises = HydrateIssue(baseStages),
                                      ![c].lookups =
                                          [k \in 1..Len(baseStages) |->
                                              [i \in 1..Len(baseStages[k].species) |->
                                                  "pending"]]]
            /\ UNCHANGED <<evolutionStages, evolutionBy, isLoading>>
    /\ UNCHANGED <<query, pokemon, pokemonBy, error, chain>>

\* a lookup that yields no artwork record: a network error, a non-success status,
\* an unreadable body or a body without sprites
LookupFailed(settled) == ~(Succeeded(settled) /\ "sprites" \in DOMAIN Body(settled))

\* page.tsx:118-133: the fetch for species i of stage k settles
LookupSettled(c, k, i, settled) ==
    /\ calls[c].pc = "hydrate"
    /\ calls[c].lookups[k][i] = "pending"
    /\ calls' = [calls EXCEPT
                    ![c].promises =
                        HydrateStore(@, k, i, HydrateSpecies(calls[c].baseStages[k].species[i],
                                                             settled)),
                    ![c].lookups[k][i] = IF LookupFailed(settled) THEN "failed" ELSE "ok"]
    /\ UNCHANGED <<query, pokemon, pokemonBy, error, isLoading, evolutionStages,
                   evolutionBy, chain>>

\* page.tsx:199-211: the hydrator's promise has settled
HydratorSettled(c) ==
    /\ calls[c].pc = "hydrate"
    /\ HydrateOutcome(calls[c].promises) # Pending
    /\ LET outcome == HydrateOutcome(calls[c].promises) IN
       Commit(c, calls[c],
              IF outcome = Rejected THEN ResolutionFailure
              ELSE [stages |-> StagesAfterCurrent(outcome.fulfilled, calls[c].data.id)])
    /\ UNCHANGED <<query, pokemon, pokemonBy, error, chain>>

-----------------------------------------------------------------------------
(* The handlers of Home *)

\* the texts a user types
Typed == {<<" ">>, <<"z", "z", "z">>}

\* the suggestion table, "@/data/kantoPokemon" (page.tsx:6)
KANTO_POKEMON == Named

Take(s, n) == SubSeq(s, 1, IF Len(s) < n THEN Len(s) ELSE n)

RECURSIVE FilterByName(_, _)
FilterByName(table, part) ==
    IF table = << >> THEN << >>
    ELSE (IF includes(table[1].name, part) THEN <<table[1]>> ELSE << >>)
             \o FilterByName(Tail(table), part)

\* page.tsx:166-174
filteredSuggestions ==
    LET normalized == toLowerCase(trim(query)) IN
    IF normalized = << >> THEN Take(KANTO_POKEMON, 6)
    ELSE Take(FilterByName(KANTO_POKEMON, normalized), 6)

\* page.tsx:317: onChange of the input
TypeQuery(text) ==
    /\ query' = text
    /\ UNCHANGED <<pokemon, pokemonBy, error, isLoading, evolutionStages, evolutionBy,
                   calls, chain>>

\* page.tsx:257-260; the submit button is disabled while isLoading (page.tsx:327)
handleSearch ==
    /\ ~isLoading
    /\ fetchPokemon([string |-> query], "search", query)

\* page.tsx:262-265
handleSuggestionSelect(name, id) ==
    fetchPokemon(IF id = {} THEN [string |-> name] ELSE [number |-> CHOOSE n \in id : TRUE],
                 "select", getFormattedName(name))

\* page.tsx:346-358: a suggestion button, rendered whatever isLoading is
SuggestionClick(s) ==
    /\ s \in 1..Len(filteredSuggestions)
    /\ handleSuggestionSelect(filteredSuggestions[s].name, {})

\* page.tsx:382, 471-509: an entry of the evolution section
EvolutionClick(k, i) ==
    /\ ~isLoading
    /\ pokemon # Null
    /\ evolutionStages # Null
    /\ LET stageSpecies == evolutionStages.stages[k].species[i] IN
       handleSuggestionSelect(stageSpecies.name, {stageSpecies.id})

\* NavigationTarget without the range added before the remainder is taken
NavigationTargetUnwrapped(id, offset) ==
    JsRemainder(id - MIN_POKEMON_ID + offset, TOTAL_POKEMON_COUNT) + MIN_POKEMON_ID

\* page.tsx:272-274
NavigationTarget(id, offset) ==
    JsRemainder(id - MIN_POKEMON_ID + offset + TOTAL_POKEMON_COUNT, TOTAL_POKEMON_COUNT)
        + MIN_POKEMON_ID

\* page.tsx:267-277
handleNavigate(offset) ==
    IF pokemon = Null THEN UNCHANGED vars
    ELSE fetchPokemon([number |-> NavigationTarget(pokemon.id, offset)],
                      IF offset = 1 THEN "next" ELSE "previous", query)

\* NavigateClick with the buttons rendered while a search is in flight
NavigateClickWhileLoading(offset) ==
    /\ pokemon # Null
    /\ handleNavigate(offset)

\* page.tsx:382-403: the Previous and Next buttons
NavigateClick(offset) ==
    /\ ~isLoading
    /\ pokemon # Null
    /\ handleNavigate(offset)

-----------------------------------------------------------------------------
(* The page: any handler the rendered controls offer, any settlement of a fetch *)

Type == \E text \in Typed : TypeQuery(text)

Search == handleSearch

Suggest == \E s \in 1..Len(KANTO_POKEMON) : SuggestionClick(s)

Evolve ==
    /\ evolutionStages # Null
    /\ \E k \in 1..Len(evolutionStages.stages) :
          \E i \in 1..Len(evolutionStages.stages[k].species) : EvolutionClick(k, i)

Navigate == \E offset \in {-1, 1} : NavigateClick(offset)

Primary ==
    \E c \in 1..Len(calls) :
        /\ calls[c].pc = "primary"
        /\ \E settled \in Settlements(PokemonBodies(calls[c].normalized)) :
              PrimarySettled(c, settled)

Species ==
    \E c \in 1..Len(calls) :
        /\ calls[c].pc = "species"
        /\ \E settled \in Settlements(SpeciesBodies(SpeciesUrlOf(calls[c].data))) :
              SpeciesSettled(c, settled)

Chain ==
    \E c \in 1..Len(calls) :
        /\ calls[c].pc = "chain"
        /\ \E settled \in Settlements(ChainBodies(calls[c].chainUrl)) :
              ChainSettled(c, settled)

Lookup ==
    \E c \in 1..Len(calls) :
        /\ calls[c].pc = "hydrate"
        /\ \E k \in 1..Len(calls[c].baseStages) :
              \E i \in 1..Len(calls[c].baseStages[k].species) :
                  \E settled \in Settlements(ArtworkBodies(calls[c].baseStages[k].species[i].id)) :
                      LookupSettled(c, k, i, settled)

Hydrated == \E c \in 1..Len(calls) : HydratorSettled(c)

Next ==
    \/ Type
    \/ Search
    \/ Suggest
    \/ Evolve
    \/ Navigate
    \/ Primary
    \/ Species
    \/ Chain
    \/ Lookup
    \/ Hydrated

Spec == Init /\ [][Next]_vars

-----------------------------------------------------------------------------
(* The resolver over every small chain: the data service serves, as the bulbasaur
   family's chain, any tree of at most MaxNodes nodes whose species references are
   those of ids 1, 2 and 3 or a reference with no numeric id; one search runs. *)

SpeciesRefs ==
    {[name |-> NameOf(n), url |-> SpeciesUrl(n)] : n \in {1, 2, 3}}
        \cup {[name |-> Missingno, url |-> BadSpeciesUrl]}

RECURSIVE TreesOfSize(_)
RECURSIVE ForestsOfSize(_)
TreesOfSize(n) ==
    {Node(ref, kids) : ref \in SpeciesRefs, kids \in ForestsOfSize(n - 1)}

ForestsOfSize(n) ==
    IF n = 0 THEN {<< >>}
    ELSE UNION {{<<first>> \o rest : first \in TreesOfSize(k), rest \in ForestsOfSize(n - k)} :
                   k \in 1..n}

InitResolve ==
    /\ query = << >>
    /\ pokemon = Null
    /\ error = Null
    /\ isLoading = FALSE
    /\ evolutionStages = Null
    /\ calls = << >>
    /\ chain \in UNION {TreesOfSize(n) : n \in 1..MaxNodes}
    /\ pokemonBy = 0
    /\ evolutionBy = 0

FirstSearch == calls = << >> /\ Suggest

NextResolve ==
    \/ FirstSearch
    \/ Primary
    \/ Species
    \/ Chain
    \/ Lookup
    \/ Hydrated

SpecResolve == InitResolve /\ [][NextResolve]_vars

-----------------------------------------------------------------------------
(* Navigation over the whole id range: the page displays the record of any id,
   as a finished search for it whose species fetch failed (or whose record has no
   species reference) leaves it; the invocation that displayed it is not
   recorded. Previous and Next are clicked. *)

InitNav ==
    /\ \E n \in MIN_POKEMON_ID..MAX_POKEMON_ID :
          /\ pokemon = PokemonRecord(n)
          /\ query = getFormattedName(NameOf(n))
    /\ error = Null
    /\ isLoading = FALSE
    /\ evolutionStages = NoStages
    /\ calls = << >>
    /\ chain = BulbasaurChain
    /\ pokemonBy = 0
    /\ evolutionBy = 0

NextNav ==
    \/ Navigate
    \/ Primary
    \/ Species
    \/ Chain
    \/ Lookup
    \/ Hydrated

SpecNav == InitNav /\ [][NextNav]_vars

-----------------------------------------------------------------------------
(* The chain as a tree, by depth: what the claims about the resolver compare
   its result with *)

RECURSIVE NodesAtDepth(_, _)
RECURSIVE ChildrenAtDepth(_, _)
\* the nodes of depth d (the root has depth 0), from left to right
NodesAtDepth(node, d) ==
    IF d = 0 THEN <<node>> ELSE ChildrenAtDepth(node.evolves_to, d - 1)

ChildrenAtDepth(children, d) ==
    IF children = << >> THEN << >>
    ELSE NodesAtDepth(children[1], d) \o ChildrenAtDepth(Tail(children), d)

\* the number of levels of a tree
RECURSIVE Levels(_)
Levels(node) ==
    LET below == {Levels(node.evolves_to[k]) : k \in 1..Len(node.evolves_to)} IN
    1 + (IF below = {} THEN 0 ELSE CHOOSE h \in below : \A g \in below : g <= h)

\* the ids of a sequence of nodes, those that have none left out
RECURSIVE IdsOf(_)
IdsOf(nodes) ==
    IF nodes = << >> THEN << >>
    ELSE LET id == extractIdFromUrl(nodes[1].species.url) IN
         (IF id = Null THEN << >> ELSE <<id.number>>) \o IdsOf(Tail(nodes))

\* the ids of each level from depth `from` on, the levels without ids left out
RECURSIVE LevelIdsFrom(_, _)
LevelIdsFrom(tree, from) ==
    IF from >= Levels(tree) THEN << >>
    ELSE LET ids == IdsOf(NodesAtDepth(tree, from)) IN
         (IF ids = << >> THEN << >> ELSE <<ids>>) \o LevelIdsFrom(tree, from + 1)

InSeq(x, s) == \E i \in 1..Len(s) : s[i] = x

OccursIn(tree, id) ==
    \E d \in 0..(Levels(tree) - 1) : InSeq(id, IdsOf(NodesAtDepth(tree, d)))

\* the depth of the first level that holds id
DepthOf(tree, id) ==
    CHOOSE d \in 0..(Levels(tree) - 1) :
        /\ InSeq(id, IdsOf(NodesAtDepth(tree, d)))
        /\ \A e \in 0..(d - 1) : ~InSeq(id, IdsOf(NodesAtDepth(tree, e)))

\* the ids of a stage sequence
StageIds(stages) ==
    [k \in 1..Len(stages) |-> [i \in 1..Len(stages[k].species) |-> stages[k].species[i].id]]

\* the tree the data service serves for the chain of the species with this id
TreeFor(id) ==
    (CHOOSE body \in ChainBodies(ChainUrlOf(SpeciesRecord(id))) : "chain" \in DOMAIN body).chain

\* an invocation whose resolver ran past both fetches
Resolved(call) == call.pc = "done" /\ call.settled.chain = "ok"

-----------------------------------------------------------------------------
(* C1 *)

\* C1: when the species and chain fetches succeed and the current id occurs in
\* the chain, the resolver returns the stages of the levels strictly below the
\* level that holds the current id, by increasing depth, and nothing of that
\* level or the ones above; over the chain 1 -> 2 -> 3 that is [2],[3] for id 1,
\* [3] for id 2 and nothing for id 3.
C1_StagesStrictlyAfter ==
    \A c \in 1..Len(calls) :
        Resolved(calls[c]) /\ OccursIn(TreeFor(calls[c].data.id), calls[c].data.id) =>
            /\ calls[c].stages # Null
            /\ StageIds(calls[c].stages.stages)
                   = LevelIdsFrom(TreeFor(calls[c].data.id),
                                  DepthOf(TreeFor(calls[c].data.id), calls[c].data.id) + 1)
            /\ TreeFor(calls[c].data.id) = BulbasaurChain =>
                   StageIds(calls[c].stages.stages)
                       = CASE calls[c].data.id = 1 -> << <<2>>, <<3>> >>
                           [] calls[c].data.id = 2 -> << <<3>> >>
                           [] calls[c].data.id = 3 -> << >>

\* the search for id 1 over the chain 1 -> 2 -> 3 returned [2] then [3]
C1_Witness ==
    \E c \in 1..Len(calls) :
        /\ Resolved(calls[c])
        /\ chain = BulbasaurChain
        /\ calls[c].data.id = 1
        /\ StageIds(calls[c].stages.stages) = << <<2>>, <<3>> >>

-----------------------------------------------------------------------------
(* C2, C3 *)

\* the places of a stage sequence
Places(stages) ==
    {<<k, i>> \in (1..Len(stages)) \X (1..MaxNodes) : i <= Len(stages[k].species)}

\* an invocation whose hydrator is running
Hydrating(call) == call.pc = "hydrate"

\* C2: whatever lookups have failed and in whatever order the lookups have
\* completed, the hydrator's promises have the shape of its input, the entry
\* settled at stage k, index i has the id of the input's entry at (k, i), and the
\* stage list the hydrator fulfils with has the input's number of stages, each
\* with the input's number of entries and the input's ids in the input's order.
C2_ShapeAndOrderKept ==
    \A c \in 1..Len(calls) :
        Hydrating(calls[c]) =>
            LET input == calls[c].baseStages
                promises == calls[c].promises
                outcome == HydrateOutcome(promises)
            IN  /\ Len(promises) = Len(input)
                /\ \A k \in 1..Len(input) : Len(promises[k]) = Len(input[k].species)
                /\ \A p \in Places(input) :
                       promises[p[1]][p[2]] \notin {Pending, Rejected} =>
                           promises[p[1]][p[2]].fulfilled.id = input[p[1]].species[p[2]].id
                /\ outcome \notin {Pending, Rejected} =>
                       /\ Len(outcome.fulfilled) = Len(input)
                       /\ \A k \in 1..Len(input) :
                              Len(outcome.fulfilled[k].species) = Len(input[k].species)
                       /\ StageIds(outcome.fulfilled) = StageIds(input)

\* in a stage of two entries the second lookup failed while the first is still
\* pending, and the second entry is in its place
C2_Witness ==
    \E c \in 1..Len(calls) :
        /\ Hydrating(calls[c])
        /\ \E k \in 1..Len(calls[c].baseStages) :
              /\ Len(calls[c].baseStages[k].species) = 2
              /\ calls[c].baseStages[k].species[1].id # calls[c].baseStages[k].species[2].id
              /\ calls[c].lookups[k][1] = "pending"
              /\ calls[c].lookups[k][2] = "failed"
              /\ calls[c].promises[k][2] = Fulfilled(calls[c].baseStages[k].species[2])

\* C3: whatever the lookups settle to (network error, non-success status,
\* unreadable or malformed body) no promise of the hydrator rejects, the hydrator
\* fulfils with a stage list and the resolver does not fail; an entry whose
\* lookup failed is the input entry with its id-derived artwork URL; and every
\* entry is what its own lookup alone makes of the input entry.
C3_HydratorAlwaysSucceeds ==
    \A c \in 1..Len(calls) :
        /\ Hydrating(calls[c]) =>
              LET input == calls[c].baseStages IN
              /\ HydrateOutcome(calls[c].promises) # Rejected
              /\ \A p \in Places(input) :
                     LET entry == input[p[1]].species[p[2]]
                         promise == calls[c].promises[p[1]][p[2]]
                         lookup == calls[c].lookups[p[1]][p[2]]
                     IN  /\ promise # Rejected
                         /\ lookup = "pending" <=> promise = Pending
                         /\ lookup = "failed" =>
                                /\ promise = Fulfilled(entry)
                                /\ promise.fulfilled.artwork = getOfficialArtworkUrl(entry.id)
                         /\ lookup = "ok" =>
                                promise = Fulfilled([entry EXCEPT !.artwork =
                                              IF getSpriteUrl(SpritesOf(entry.id)) # EmptyString
                                              THEN getSpriteUrl(SpritesOf(entry.id)) ELSE @])
        /\ Resolved(calls[c]) => calls[c].stages # Null

\* every lookup has settled, one failed beside one that brought artwork, and the
\* hydrator fulfils
C3_Witness ==
    \E c \in 1..Len(calls) :
        /\ Hydrating(calls[c])
        /\ HydrateOutcome(calls[c].promises) \notin {Pending, Rejected}
        /\ \E p, q \in Places(calls[c].baseStages) :
              /\ calls[c].lookups[p[1]][p[2]] = "failed"
              /\ calls[c].lookups[q[1]][q[2]] = "ok"
              /\ calls[c].promises[q[1]][q[2]].fulfilled.artwork
                     # getOfficialArtworkUrl(calls[c].baseStages[q[1]].species[q[2]].id)

-----------------------------------------------------------------------------
(* C4, C5 *)

\* an invocation that has returned and whose resolver was invoked
ResolverReturned(call) == call.pc = "done" /\ call.settled.species # "none"

\* C4: the resolver reports the failure outcome if and only if its species fetch
\* or its chain fetch failed (network error, non-success status, unreadable or
\* malformed payload); the failure outcome is no stage list, the empty one
\* included, and every other outcome is a stage list.
C4_FailureIsNotEmptySuccess ==
    /\ ResolutionFailure # NoStages
    /\ \A c \in 1..Len(calls) :
          ResolverReturned(calls[c]) =>
              /\ calls[c].stages = ResolutionFailure
                     <=> (calls[c].settled.species = "failed" \/ calls[c].settled.chain = "failed")
              /\ calls[c].stages # ResolutionFailure => "stages" \in DOMAIN calls[c].stages
              /\ calls[c].stages = ResolutionFailure => "stages" \notin DOMAIN calls[c].stages

\* one resolution failed at the chain fetch, another succeeded with no stages
C4_Witness ==
    \E c, d \in 1..Len(calls) :
        /\ ResolverReturned(calls[c])
        /\ calls[c].settled.chain = "failed"
        /\ calls[c].stages = ResolutionFailure
        /\ ResolverReturned(calls[d])
        /\ calls[d].settled.chain = "ok"
        /\ calls[d].stages = NoStages

\* C5: a species record without a chain reference makes the resolution succeed
\* with the empty stage sequence and no chain fetch or artwork lookup is sent;
\* and a search whose resolution succeeds with no later stage ends with the
\* record displayed, no error and the evolution state attempted-and-empty.
C5_EmptySuccessShown ==
    [][\A c \in 1..Len(calls) :
          (calls[c].pc # "done" /\ calls'[c].pc = "done"
              /\ calls'[c].settled.species = "ok") =>
             /\ SpeciesRecord(calls'[c].data.id).evolution_chain = {} =>
                    calls'[c].stages = NoStages /\ calls'[c].settled.chain = "none"
             /\ calls'[c].stages = NoStages =>
                    pokemon' # Null /\ error' = Null /\ evolutionStages' = NoStages]_vars

-----------------------------------------------------------------------------
(* C6 *)

\* an invocation started by handleNavigate
Navigated(call) == call.via \in {"next", "previous"}

\* the id an invocation in flight has requested
Requested(call) == DecimalValue(call.normalized)

\* C6: with an id of 1..1025 displayed, Next requests id + 1, or 1 from 1025, and
\* Previous requests id - 1, or 1025 from 1; the requested id is within 1..1025;
\* and Previous after a Next whose lookup succeeded requests, and on success
\* displays, the id the page showed before the Next.
C6_NavigationWraps ==
    \A c \in 1..Len(calls) :
        Navigated(calls[c]) =>
            /\ calls[c].from \in MIN_POKEMON_ID..MAX_POKEMON_ID
            /\ calls[c].pc = "primary" =>
                  /\ calls[c].normalized = ToString(Requested(calls[c]))
                  /\ Requested(calls[c]) \in MIN_POKEMON_ID..MAX_POKEMON_ID
                  /\ calls[c].via = "next" =>
                         Requested(calls[c]) = IF calls[c].from < MAX_POKEMON_ID
                                               THEN calls[c].from + 1 ELSE MIN_POKEMON_ID
                  /\ calls[c].via = "previous" =>
                         Requested(calls[c]) = IF calls[c].from > MIN_POKEMON_ID
                                               THEN calls[c].from - 1 ELSE MAX_POKEMON_ID
            /\ (/\ c > 1
                /\ calls[c].via = "previous"
                /\ calls[c - 1].via = "next"
                /\ calls[c - 1].settled.primary = "ok"
                /\ calls[c].from = calls[c - 1].data.id) =>
                  /\ calls[c].pc = "primary" => Requested(calls[c]) = calls[c - 1].from
                  /\ calls[c].settled.primary = "ok" => calls[c].data.id = calls[c - 1].from

\* Next from 1025 displayed 1, and Previous from there displays 1025 again
C6_Witness ==
    /\ Len(calls) = 2
    /\ calls[1].via = "next" /\ calls[1].from = MAX_POKEMON_ID
    /\ calls[1].data # Null /\ calls[1].data.id = MIN_POKEMON_ID
    /\ calls[2].via = "previous" /\ calls[2].from = MIN_POKEMON_ID
    /\ calls[2].pc = "done"
    /\ pokemon # Null /\ pokemon.id = MAX_POKEMON_ID

-----------------------------------------------------------------------------
(* C7 *)

\* the primary fetch of invocation c fails in this step
PrimaryFails(c) == calls[c].pc = "primary" /\ calls'[c].settled.primary = "failed"

\* C7: the step in which a primary fetch fails leaves no record displayed, no
\* evolution stage and the one not-found message; the search is over then, and no
\* species, chain or artwork fetch was or will be sent for it.
C7_FailedPrimaryClears ==
    /\ [][\A c \in 1..Len(calls) :
             PrimaryFails(c) =>
                 /\ pokemon' = Null
                 /\ evolutionStages' # Null /\ evolutionStages'.stages = << >>
                 /\ error' = NotFoundMessage]_vars
    /\ [](\A c \in 1..Len(calls) :
             calls[c].settled.primary = "failed" =>
                 /\ calls[c].pc = "done"
                 /\ calls[c].settled.species = "none"
                 /\ calls[c].settled.chain = "none"
                 /\ calls[c].stages = Unset)

\* a record was displayed by one search, the next search's primary fetch failed
\* and the page shows the message and no record
C7_Witness ==
    \E c, d \in 1..Len(calls) :
        /\ c < d
        /\ calls[c].pc = "done" /\ calls[c].settled.primary = "ok"
        /\ calls[d].settled.primary = "failed"
        /\ pokemon = Null
        /\ error = NotFoundMessage
        /\ evolutionStages = NoStages
        /\ pokemonBy = d

-----------------------------------------------------------------------------
(* C8 *)

\* the number of nodes of a tree whose reference has a numeric id
RECURSIVE Parseable(_)
RECURSIVE ParseableAmong(_)
Parseable(node) ==
    (IF extractIdFromUrl(node.species.url) = Null THEN 0 ELSE 1)
        + ParseableAmong(node.evolves_to)

ParseableAmong(children) ==
    IF children = << >> THEN 0
    ELSE Parseable(children[1]) + ParseableAmong(Tail(children))

\* whether a node, or a node below it, has the reference r
RECURSIVE Refers(_, _)
Refers(node, r) ==
    \/ node.species = r
    \/ \E k \in 1..Len(node.evolves_to) : Refers(node.evolves_to[k], r)

\* a tree in which a node without a numeric id has a sibling and a child that
\* have one
HasSkippedNodeWithKin(tree) ==
    \E k, j \in 1..Len(tree.evolves_to) :
        /\ k # j
        /\ extractIdFromUrl(tree.evolves_to[k].species.url) = Null
        /\ extractIdFromUrl(tree.evolves_to[j].species.url) # Null
        /\ Len(tree.evolves_to[k].evolves_to) = 1
        /\ extractIdFromUrl(tree.evolves_to[k].evolves_to[1].species.url) # Null

\* C8: a node whose reference has no numeric id adds no entry to any stage;
\* every other node, its siblings and the nodes below it among them, adds its
\* entry to the stage of its depth; and the resolution does not fail.
C8_DropAndContinue ==
    \A c \in 1..Len(calls) :
        /\ Hydrating(calls[c]) =>
              LET stages == calls[c].baseStages
                  tree == TreeFor(calls[c].data.id)
              IN
              /\ \A p \in Places(stages) :
                     /\ stages[p[1]].species[p[2]].name # Missingno
                     /\ Refers(tree, [name |-> stages[p[1]].species[p[2]].name,
                                        url |-> SpeciesUrl(stages[p[1]].species[p[2]].id)])
              /\ Cardinality(Places(stages)) = Parseable(tree)
              /\ StageIds(stages) = LevelIdsFrom(tree, 0)
        /\ Resolved(calls[c]) => calls[c].stages # ResolutionFailure

\* the resolver returned the entries of the sibling and of the child of a node
\* it skipped
C8_Witness ==
    \E c \in 1..Len(calls) :
        /\ Resolved(calls[c])
        /\ TreeFor(calls[c].data.id) = chain
        /\ HasSkippedNodeWithKin(chain)
        /\ StageHasId(buildEvolutionStages(chain)[1], calls[c].data.id)
        /\ calls[c].stages # ResolutionFailure
        /\ Len(calls[c].stages.stages) = 2
        /\ Len(calls[c].stages.stages[1].species) = 1
        /\ Len(calls[c].stages.stages[2].species) = 1

-----------------------------------------------------------------------------
(* C9, C10 *)

\* whether the search that wrote the evolution state last has had its resolver
\* return; 0 stands for the rejection of an empty identifier
ResolutionAttempted ==
    evolutionBy # 0 /\ ResolverReturned(calls[evolutionBy])

\* C9: the evolution state is not-yet-attempted exactly when the current search
\* has attempted no resolution, empty only when its resolution was attempted and
\* yielded no stages, populated only when its resolution yielded a stage.
C9_TriStateKept ==
    /\ evolutionStages = Null <=> ~ResolutionAttempted
    /\ (evolutionStages # Null /\ evolutionStages.stages = << >>) =>
           ResolutionAttempted /\ calls[evolutionBy].stages = NoStages
    /\ (evolutionStages # Null /\ evolutionStages.stages # << >>) =>
           ResolutionAttempted /\ calls[evolutionBy].stages = evolutionStages

\* a search starts in this step
Starts == Len(calls') = Len(calls) + 1

\* the evolution state is stored in this step
Stores == evolutionStages' # Null /\ <<evolutionStages, evolutionBy>>' # <<evolutionStages, evolutionBy>>

\* C10: the step that sends a primary fetch leaves no error and the evolution
\* state not-yet-attempted; a species fetch is sent only by a search whose primary
\* fetch has succeeded; the evolution state is stored only in the step in which
\* its search returns, with no fetch of its resolver or hydrator outstanding; a
\* search whose primary fetch failed has sent no species, chain or artwork fetch.
C10_OrchestrationOrder ==
    /\ [][Starts =>
             /\ error' = Null /\ evolutionStages' = Null
             /\ calls'[Len(calls')].pc = "primary"
             /\ calls'[Len(calls')].settled
                    = [primary |-> "pending", species |-> "none", chain |-> "none"]]_vars
    /\ [][Stores =>
             /\ calls[evolutionBy'].pc # "done" /\ calls'[evolutionBy'].pc = "done"
             /\ calls'[evolutionBy'].settled.species # "pending"
             /\ calls'[evolutionBy'].settled.chain # "pending"
             /\ calls[evolutionBy'].pc = "hydrate" =>
                    \A p \in Places(calls[evolutionBy'].baseStages) :
                        calls[evolutionBy'].lookups[p[1]][p[2]] # "pending"]_vars
    /\ [](\A c \in 1..Len(calls) :
             /\ calls[c].settled.species # "none" => calls[c].settled.primary = "ok"
             /\ calls[c].settled.chain # "none" => calls[c].settled.species = "ok"
             /\ calls[c].pc \in {"species", "chain", "hydrate"} =>
                    calls[c].settled.primary = "ok"
             /\ calls[c].settled.primary = "failed" =>
                    calls[c].pc = "done" /\ calls[c].settled.species = "none"
                        /\ calls[c].settled.chain = "none")

\* after a search that failed, the next search is over: it cleared the message
\* and stored the stages its resolver and hydrator returned
C10_Witness ==
    \E c, d \in 1..Len(calls) :
        /\ c < d
        /\ calls[c].settled.primary = "failed"
        /\ Resolved(calls[d])
        /\ calls[d].stages # NoStages
        /\ evolutionStages = calls[d].stages
        /\ evolutionBy = d
        /\ error = Null

-----------------------------------------------------------------------------
(* C11 *)

\* invocation c returns in this step
Returns(c) == calls[c].pc # "done" /\ calls'[c].pc = "done"

\* C11: a search can start while an earlier one is in flight; starting it leaves
\* every earlier invocation as it was (nothing cancels or tags it); and whatever
\* invocation a response arrives for, the latest or not, stores its record when
\* its primary fetch succeeds and its error and evolution state when it returns,
\* so the response of the earlier search can overwrite what the later stored.
C11_StaleResponseOverwrites ==
    /\ [][Starts => \A c \in 1..Len(calls) : calls'[c] = calls[c]]_vars
    /\ [][\A c \in 1..Len(calls) :
             /\ (calls[c].pc = "primary" /\ calls'[c].settled.primary = "ok") =>
                    pokemon' = calls'[c].data /\ pokemonBy' = c
             /\ Returns(c) =>
                    /\ evolutionBy' = c
                    /\ ~isLoading'
                    /\ evolutionStages' = IF calls'[c].stages \in {Unset, ResolutionFailure}
                                          THEN NoStages ELSE calls'[c].stages]_vars

\* both searches are over; the second, started by a suggestion while the first
\* was in flight, displayed its record and stored its stages, and then the
\* responses of the first arrived: the page shows the first search's record and
\* stages
C11_Witness ==
    /\ Len(calls) = 2
    /\ Resolved(calls[1]) /\ Resolved(calls[2])
    /\ calls[2].via = "select"
    /\ calls[1].data.id # calls[2].data.id
    /\ calls[1].stages # calls[2].stages
    /\ pokemonBy = 1 /\ pokemon = calls[1].data
    /\ evolutionBy = 1 /\ evolutionStages = calls[1].stages
    /\ ~isLoading

-----------------------------------------------------------------------------
(* C12 *)

\* the page without typing: the searches are for the text the handlers leave in
\* the input
NextLive ==
    \/ Search
    \/ Suggest
    \/ Evolve
    \/ Navigate
    \/ Primary
    \/ Species
    \/ Chain
    \/ Lookup
    \/ Hydrated

\* that page when every fetch that was sent settles at last
SpecLive ==
    /\ Init
    /\ [][NextLive]_vars
    /\ WF_vars(Primary)
    /\ WF_vars(Species)
    /\ WF_vars(Chain)
    /\ WF_vars(Lookup)
    /\ WF_vars(Hydrated)

\* C12: if every fetch settles at last, then whatever searches, suggestion
\* selections and navigations were made and whichever fetches failed, the
\* in-flight flag, once set, becomes false again.
C12_ReturnsToIdle == isLoading ~> ~isLoading

\* the page is idle after two searches, one whose primary fetch failed and one
\* that lost its chain fetch or an artwork lookup
C12_Witness ==
    /\ ~isLoading
    /\ \A c \in 1..Len(calls) : calls[c].pc = "done"
    /\ \E c, d \in 1..Len(calls) :
          /\ calls[c].settled.primary = "failed"
          /\ calls[d].settled.chain = "failed"

-----------------------------------------------------------------------------
(* C13 *)

\* the places of the stages invocation c hydrates whose lookup failed
FailedPlaces(c) ==
    {p \in Places(calls[c].baseStages) : calls[c].lookups[p[1]][p[2]] = "failed"}

\* C13: a search whose primary fetch succeeded and whose species or chain fetch
\* failed ends with its record displayed, no error message and no evolution
\* stage; a search that lost only artwork lookups ends with its record and its
\* stages displayed, the entries of the failed lookups with their id-derived
\* artwork, and no error message.
C13_PartialFailureNotSurfaced ==
    [][\A c \in 1..Len(calls) :
          (Returns(c) /\ calls'[c].settled.primary = "ok") =>
              /\ (calls'[c].settled.species = "failed" \/ calls'[c].settled.chain = "failed") =>
                     /\ pokemon' = calls'[c].data
                     /\ error' = Null
                     /\ evolutionStages' = NoStages
              /\ (calls[c].pc = "hydrate" /\ FailedPlaces(c) # {}) =>
                     /\ pokemon' = calls'[c].data
                     /\ error' = Null
                     /\ evolutionStages' = calls'[c].stages
                     /\ LET shown == evolutionStages'.stages
                            before == Len(calls[c].baseStages) - Len(shown)
                        IN  \A p \in FailedPlaces(c) :
                                p[1] > before =>
                                    shown[p[1] - before].species[p[2]].artwork
                                        = getOfficialArtworkUrl(
                                              calls[c].baseStages[p[1]].species[p[2]].id)]_vars

-----------------------------------------------------------------------------
(* C14 *)

\* the entries of a sequence of nodes, those without a numeric id left out
RECURSIVE EntriesOf(_)
EntriesOf(nodes) ==
    IF nodes = << >> THEN << >>
    ELSE LET id == extractIdFromUrl(nodes[1].species.url) IN
         (IF id = Null THEN << >>
          ELSE <<[id |-> id.number, name |-> nodes[1].species.name,
                  artwork |-> getOfficialArtworkUrl(id.number)]>>)
             \o EntriesOf(Tail(nodes))

\* the number of levels above depth d that hold a node with a numeric id
Rank(tree, d) ==
    Cardinality({e \in 0..(d - 1) : IdsOf(NodesAtDepth(tree, e)) # << >>})

\* an invocation whose resolver has just built the stages: the hydrator's lookups
\* are sent and none has settled
JustBuilt(call) ==
    /\ Hydrating(call)
    /\ \A p \in Places(call.baseStages) : call.lookups[p[1]][p[2]] = "pending"

\* C14 as stated: every node with a numeric id is in the stage whose index is
\* the node's depth, and that stage holds one entry per such node of that depth,
\* in traversal order and without deduplication.
C14_StageIndexIsDepth ==
    \A c \in 1..Len(calls) :
        JustBuilt(calls[c]) =>
            LET tree == TreeFor(calls[c].data.id) IN
            \A d \in 0..(Levels(tree) - 1) :
                IdsOf(NodesAtDepth(tree, d)) # << >> =>
                    /\ d + 1 <= Len(calls[c].baseStages)
                    /\ calls[c].baseStages[d + 1].species = EntriesOf(NodesAtDepth(tree, d))

\* C14, amended: the stages are the levels that hold a node with a numeric id, by
\* increasing depth; the stage of a level has as index the number of such
\* levels above it (the depth, when every level above holds one) and holds one
\* entry per node with a numeric id of that depth, in traversal order and
\* without deduplication; before the empty stages are filtered out the index is
\* the depth.
C14_StagesAreLevels ==
    \A c \in 1..Len(calls) :
        JustBuilt(calls[c]) =>
            LET tree == TreeFor(calls[c].data.id)
                unfiltered == traverse(tree, 0, << >>)
            IN  /\ Len(unfiltered) = Levels(tree)
                /\ Len(calls[c].baseStages) = Rank(tree, Levels(tree))
                /\ \A d \in 0..(Levels(tree) - 1) :
                       /\ unfiltered[d + 1].species = EntriesOf(NodesAtDepth(tree, d))
                       /\ IdsOf(NodesAtDepth(tree, d)) # << >> =>
                              calls[c].baseStages[Rank(tree, d) + 1].species
                                  = EntriesOf(NodesAtDepth(tree, d))

\* the root has no numeric id, so the two nodes below it, which have the same
\* id, make up the first stage
C14_Witness ==
    \E c \in 1..Len(calls) :
        /\ Hydrating(calls[c])
        /\ TreeFor(calls[c].data.id) = chain
        /\ extractIdFromUrl(chain.species.url) = Null
        /\ Len(calls[c].baseStages) = 1
        /\ Len(calls[c].baseStages[1].species) = 2
        /\ calls[c].baseStages[1].species[1].id = calls[c].baseStages[1].species[2].id

-----------------------------------------------------------------------------
(* C15 *)

NoEmptyStage(stages) == \A k \in 1..Len(stages) : stages[k].species # << >>

\* C15: every stage buildEvolutionStages puts out, every stage the resolver
\* returns and every stage of the evolution state has at least one entry, also
\* when no node of some depth has a numeric id.
C15_NoEmptyStage ==
    /\ \A c \in 1..Len(calls) :
          /\ Hydrating(calls[c]) => NoEmptyStage(calls[c].baseStages)
          /\ Resolved(calls[c]) => NoEmptyStage(calls[c].stages.stages)
    /\ evolutionStages # Null => NoEmptyStage(evolutionStages.stages)

\* a level of the chain holds no node with a numeric id, and the stages the
\* resolver returned from below it are stored
C15_Witness ==
    \E c \in 1..Len(calls) :
        /\ Resolved(calls[c])
        /\ TreeFor(calls[c].data.id) = chain
        /\ Rank(chain, Levels(chain)) < Levels(chain)
        /\ IdsOf(NodesAtDepth(chain, 1)) = << >>
        /\ Levels(chain) = 3
        /\ calls[c].stages.stages # << >>
        /\ evolutionStages = calls[c].stages

-----------------------------------------------------------------------------
(* C16 *)

\* C16: when the species and chain fetches succeed and no stage of the chain
\* holds the current id, the resolver returns the empty stage sequence, which is
\* a success and not the failure outcome.
C16_AbsentIdIsEmptySuccess ==
    \A c \in 1..Len(calls) :
        (Resolved(calls[c]) /\ ~OccursIn(TreeFor(calls[c].data.id), calls[c].data.id)) =>
            /\ calls[c].stages = NoStages
            /\ calls[c].stages # ResolutionFailure

\* the root of the chain has no numeric id, the nodes below it have ids other
\* than the current one, and the resolver returned the empty sequence
C16_Witness ==
    \E c \in 1..Len(calls) :
        /\ Resolved(calls[c])
        /\ TreeFor(calls[c].data.id) = chain
        /\ extractIdFromUrl(chain.species.url) = Null
        /\ Parseable(chain) > 0
        /\ ~OccursIn(chain, calls[c].data.id)
        /\ calls[c].stages = NoStages

-----------------------------------------------------------------------------
(* C17 *)

\* C17: within one resolution the chain fetch is sent in the step in which the
\* species fetch succeeds with a chain URL, to that URL, and is never sent when
\* the species fetch failed or is outstanding; artwork lookups are sent in the
\* step in which the chain fetch succeeds and exist only after it.
C17_ResolverFetchOrder ==
    /\ [](\A c \in 1..Len(calls) :
             /\ calls[c].settled.chain # "none" =>
                    /\ calls[c].settled.species = "ok"
                    /\ HasChainUrl(SpeciesRecord(calls[c].data.id))
             /\ calls[c].settled.species \in {"pending", "failed"} =>
                    calls[c].settled.chain = "none" /\ calls[c].lookups = << >>
             /\ calls[c].pc = "chain" =>
                    calls[c].chainUrl = ChainUrlOf(SpeciesRecord(calls[c].data.id))
             /\ (calls[c].pc = "hydrate" \/ calls[c].lookups # << >>
                     \/ calls[c].promises # << >>) =>
                    calls[c].settled.chain = "ok"
             /\ calls[c].settled.chain \in {"pending", "failed"} =>
                    calls[c].lookups = << >> /\ calls[c].promises = << >>)
    /\ [][\A c \in 1..Len(calls) :
             /\ (calls[c].settled.chain = "none" /\ calls'[c].settled.chain # "none") =>
                    /\ calls[c].settled.species = "pending"
                    /\ calls'[c].settled.species = "ok"
                    /\ calls'[c].settled.chain = "pending"
             /\ (calls[c].pc # "hydrate" /\ calls'[c].pc = "hydrate") =>
                    /\ calls[c].settled.chain = "pending"
                    /\ calls'[c].settled.chain = "ok"]_vars

\* one resolution has its artwork lookups out after its chain fetch succeeded,
\* another ended at its failed species fetch without a chain fetch
C17_Witness ==
    \E c, d \in 1..Len(calls) :
        /\ calls[c].pc = "hydrate"
        /\ Places(calls[c].baseStages) # {}
        /\ calls[c].settled.chain = "ok"
        /\ calls[d].pc = "done"
        /\ calls[d].settled.species = "failed"
        /\ calls[d].settled.chain = "none"

-----------------------------------------------------------------------------
(* C18 *)

\* the stage, counted from 0, of the stages an invocation hydrates that holds
\* its record's id, or -1
CurrentStage(call) == findIndex(call.baseStages, call.data.id)

\* the places the hydrator has sent a lookup for
LookupPlaces(call) ==
    {<<k, i>> \in (1..Len(call.lookups)) \X (1..MaxNodes) : i <= Len(call.lookups[k])}

\* C18 as stated: the hydrator works on the stages strictly after the queried
\* species, so an artwork lookup is sent only for a species of a returned stage,
\* never for the queried species or a species of an earlier stage.
C18_LookupsOnlyForReturnedStages ==
    \A c \in 1..Len(calls) :
        Hydrating(calls[c]) =>
            \A p \in LookupPlaces(calls[c]) :
                /\ calls[c].baseStages[p[1]].species[p[2]].id # calls[c].data.id
                /\ CurrentStage(calls[c]) # -1 => p[1] > CurrentStage(calls[c]) + 1

\* C18, amended: the hydrator works, inside the resolver, on all the stages
\* flattened from the chain, so an artwork lookup is sent for every species of
\* the chain that has a numeric id, the queried species and those of earlier
\* stages included; the stages strictly after the queried species are cut from
\* what the hydrator returns.
C18_LookupsForWholeChain ==
    /\ [](\A c \in 1..Len(calls) :
             /\ Hydrating(calls[c]) =>
                    /\ LookupPlaces(calls[c]) = Places(calls[c].baseStages)
                    /\ Len(calls[c].lookups) = Len(calls[c].baseStages)
             /\ JustBuilt(calls[c]) =>
                 /\ StageIds(calls[c].baseStages) = LevelIdsFrom(TreeFor(calls[c].data.id), 0)
                 /\ OccursIn(TreeFor(calls[c].data.id), calls[c].data.id) =>
                        \E p \in LookupPlaces(calls[c]) :
                            /\ calls[c].baseStages[p[1]].species[p[2]].id = calls[c].data.id
                            /\ p[1] = CurrentStage(calls[c]) + 1)
    /\ [][\A c \in 1..Len(calls) :
             (Returns(c) /\ calls[c].pc = "hydrate") =>
                 LET hydrated == HydrateOutcome(calls[c].promises).fulfilled IN
                 /\ Len(hydrated) = Len(calls[c].baseStages)
                 /\ calls'[c].stages.stages
                        = IF CurrentStage(calls[c]) = -1 THEN << >>
                          ELSE SubSeq(hydrated, CurrentStage(calls[c]) + 2, Len(hydrated))]_vars

\* the search for id 2 over the chain 1 -> 2 -> 3: the lookups for ids 1 and 2
\* have settled, the one for id 3 is out
C18_Witness ==
    \E c \in 1..Len(calls) :
        /\ Hydrating(calls[c])
        /\ TreeFor(calls[c].data.id) = BulbasaurChain
        /\ calls[c].data.id = 2
        /\ calls[c].lookups = << <<"ok">>, <<"ok">>, <<"pending">> >>

-----------------------------------------------------------------------------
(* C19 *)

\* page.tsx:382-403: whether the Previous and Next buttons are rendered
NavigationOffered == ~isLoading /\ pokemon # Null

\* page.tsx:267-270: handleNavigate called though its buttons are not rendered
\* for want of a record
NavigateUnoffered == pokemon = Null /\ \E offset \in {-1, 1} : handleNavigate(offset)

NextOffer == Next \/ NavigateUnoffered

\* the page, with handleNavigate also called when no record is displayed
SpecOffer == Init /\ [][NextOffer]_vars

\* the search an invocation started in this step belongs to
Started == calls'[Len(calls')]

\* C19: a navigation starts only from a state in which a record is displayed
\* and the in-flight flag is false, which is when its buttons are offered, and it
\* starts from the displayed id; with no record displayed, before the first
\* search as well as after a failed one, no navigation starts and a call
\* of handleNavigate sends no fetch and changes nothing.
C19_NavigationNeedsRecord ==
    /\ [](\A c \in 1..Len(calls) :
             Navigated(calls[c]) => c > 1 /\ calls[c].from \in MIN_POKEMON_ID..MAX_POKEMON_ID)
    /\ [][(Starts /\ Navigated(Started)) =>
             /\ NavigationOffered
             /\ Started.from = pokemon.id]_vars
    /\ [][NavigateUnoffered => UNCHANGED vars]_vars

\* a navigation is in flight that started from the record the first search
\* displayed
C19_Witness ==
    /\ Len(calls) = 2
    /\ calls[1].pc = "done" /\ calls[1].settled.primary = "ok"
    /\ Navigated(calls[2]) /\ calls[2].pc = "primary"
    /\ calls[2].from = calls[1].data.id
    /\ isLoading

-----------------------------------------------------------------------------
(* C20 *)

\* page.tsx:382, 471-477: a record is displayed with stages below it
StagesShown ==
    /\ ~isLoading
    /\ pokemon # Null
    /\ evolutionStages # Null
    /\ evolutionStages.stages # << >>

\* C20: the stages displayed with a record were computed by a search for that
\* record: they are the stages of the record's own chain strictly after its own
\* stage.
C20_RecordAndStagesCohere ==
    StagesShown =>
        /\ calls[evolutionBy].data = pokemon
        /\ calls[evolutionBy].stages = evolutionStages
        /\ OccursIn(TreeFor(pokemon.id), pokemon.id)
        /\ StageIds(evolutionStages.stages)
               = LevelIdsFrom(TreeFor(pokemon.id), DepthOf(TreeFor(pokemon.id), pokemon.id) + 1)

-----------------------------------------------------------------------------
(* C21 *)

\* an invocation that awaits a primary, species, chain or artwork response
InFlight(call) == call.pc # "done"

\* C21: while an invocation that was started has not returned the in-flight flag
\* is true, and the return of one invocation does not reset the flag while
\* another is still out.
C21_FlagAccurate ==
    /\ []((\E c \in 1..Len(calls) : InFlight(calls[c])) => isLoading)
    /\ [][\A c \in 1..Len(calls) :
             (Returns(c) /\ \E d \in 1..Len(calls) : d # c /\ InFlight(calls'[d])) =>
                 isLoading']_vars

-----------------------------------------------------------------------------
(* C22 *)

\* no search is in flight
AtRest == \A c \in 1..Len(calls) : ~InFlight(calls[c])

\* C22: when no search is in flight, an error message means that no record is
\* displayed, and a displayed record that there is no error message.
C22_ErrorExcludesRecord == AtRest => (error # Null => pokemon = Null)

-----------------------------------------------------------------------------
(* C23 *)

\* the query is empty or only whitespace
Blank(text) == trim(text) = << >>

\* C23: submitting a query that is empty or only whitespace sends no fetch, sets
\* the enter-a-name message, leaves no record displayed and the evolution state
\* not-yet-attempted, and leaves the in-flight flag and the query text as they
\* were.
C23_EmptyQueryRejected ==
    [][(handleSearch /\ Blank(query)) =>
          /\ calls' = calls
          /\ error' = EnterNameMessage
          /\ pokemon' = Null
          /\ evolutionStages' = Null
          /\ isLoading' = isLoading
          /\ query' = query]_vars

\* a search displayed a record with its stages; then a query of one space was
\* submitted, and the page shows the message and neither record nor stages
C23_Witness ==
    /\ query = <<" ">>
    /\ error = EnterNameMessage
    /\ pokemon = Null
    /\ evolutionStages = Null
    /\ ~isLoading
    /\ pokemonBy = 0
    /\ \E c \in 1..Len(calls) : Resolved(calls[c]) /\ calls[c].stages # NoStages

-----------------------------------------------------------------------------
(* C24 *)

\* a way the lookup of place p settled that accounts for the promise the
\* hydrator holds at that place
OutcomeAt(call, p) ==
    LET species == call.baseStages[p[1]].species[p[2]] IN
    CHOOSE settled \in Settlements(ArtworkBodies(species.id)) :
        HydrateSpecies(species, settled) = call.promises[p[1]][p[2]]

\* the other order: the built stages are restricted to those after the stage of
\* the record's id, then only these are hydrated, every lookup settling as the
\* lookup of the same place did
RestrictThenHydrate(call) ==
    LET restricted == StagesAfterCurrent(call.baseStages, call.data.id)
        before == Len(call.baseStages) - Len(restricted)
        promises == [k \in 1..Len(restricted) |->
                        [i \in 1..Len(restricted[k].species) |->
                            HydrateSpecies(restricted[k].species[i],
                                           OutcomeAt(call, <<k + before, i>>))]]
    IN  HydrateOutcome(promises)

\* C24: for every chain, every current id and every way the lookups settle, the
\* stages the resolver returns, hydrating all built stages and then locating the
\* current id and slicing, are entry for entry, artwork included, the stages
\* obtained by restricting to the stages after the current id's stage first
\* and hydrating only those.
C24_HydrateAndRestrictCommute ==
    [][\A c \in 1..Len(calls) :
          (Hydrating(calls[c]) /\ Returns(c)) =>
              /\ calls'[c].stages # ResolutionFailure
              /\ RestrictThenHydrate(calls[c]) = Fulfilled(calls'[c].stages.stages)]_vars

\* the resolver returned two stages or more, one entry enriched by its lookup
\* and one left with its id-derived artwork
C24_Witness ==
    \E c \in 1..Len(calls) :
        /\ Resolved(calls[c])
        /\ calls[c].stages # ResolutionFailure
        /\ Len(calls[c].stages.stages) >= 2
        /\ \E p \in Places(calls[c].stages.stages) :
               LET entry == calls[c].stages.stages[p[1]].species[p[2]] IN
               entry.artwork = getOfficialArtworkUrl(entry.id)
        /\ \E p \in Places(calls[c].stages.stages) :
               LET entry == calls[c].stages.stages[p[1]].species[p[2]] IN
               entry.artwork # getOfficialArtworkUrl(entry.id)

=============================================================================
